---------------------------- MODULE Spec2Model ----------------------------
(***************************************************************************)
(* Canal View solver (canal.py) and verifier (canalverify.py).             *)
(*                                                                         *)
(* A cell is <<i, j>>, 0-based as in the source.  C[cell] = TRUE means the *)
(* cell is UNSHADED.  An edge pair a is a function over {0, 1}: a[0] is    *)
(* "down or left", a[1] is "up or right".  An assignment (a z3 model) is a *)
(* record [C, H, V, P, R] of functions over the cells.                     *)
(*                                                                         *)
(* A grid cell holds a Python value.  The encoder tests it with            *)
(* "is not None" and "!= '?'", the verifier with "> -2" and ">= 0", so a   *)
(* marker is modelled with its Python type: None, the string '?', or an    *)
(* int.                                                                    *)
(***************************************************************************)
EXTENDS Integers, Sequences, FiniteSets, TLC

VARIABLES nrow, ncol, grid, encGrid, slimit,
          pc, blocks, mdl, Cbool, Estr, num_solutions, reported, summary,
          lastCheck,
          allow_weak, totalcount, reached, work, vresult,
          ci, cj, encSum, visible

vars == <<nrow, ncol, grid, encGrid, slimit,
          pc, blocks, mdl, Cbool, Estr, num_solutions, reported, summary,
          lastCheck,
          allow_weak, totalcount, reached, work, vresult,
          ci, cj, encSum, visible>>

---------------------------------------------------------------------------
(* Bounds of the model. *)

\* Largest numeric clue a grid cell may carry.
MaxClue == 1

\* Largest solution cap (args.slimit) tried.
MaxLimit == 2

\* Grid shapes <<nrow, ncol>> of the runs of solve_and_print.
Shapes == {<<1, 1>>, <<1, 2>>, <<2, 1>>}

\* Grid shapes of the encode / decode / verify runs.
EncShapes == Shapes \cup {<<2, 2>>}

---------------------------------------------------------------------------
(* Python values of a grid cell. *)

None == [tag |-> "None", n |-> 0]

QMark == [tag |-> "str", n |-> 0]

PyInt(k) == [tag |-> "int", n |-> k]

Markers == {None, QMark} \cup {PyInt(k) : k \in -2 .. MaxClue}

Cells(nr, nc) == (0 .. nr - 1) \X (0 .. nc - 1)

Grids(nr, nc) == [Cells(nr, nc) -> Markers]

Shadings(nr, nc) == [Cells(nr, nc) -> BOOLEAN]

Bit == {0, 1}

EdgePairs == [Bit -> BOOLEAN]

\* Number of TRUE values of a boolean function (z3 PbEq with weights 1).
PbCount(f) == Cardinality({x \in DOMAIN f : f[x]})

---------------------------------------------------------------------------
(* canal.py: edge helpers *)

absent_edge(a) == ~a[0] /\ ~a[1]

up_right_edge(a) == a[1]

down_left_edge(a) == a[0]

legal_edge(a) == ~a[0] \/ ~a[1]

---------------------------------------------------------------------------
(* canal.py add_constraints: the clue count expression, lines 146-173.     *)
(* Each operator evaluates, under the shading Cv, the z3 integer term the  *)
(* corresponding while loop builds.                                        *)

\* numLeft with the blocked flag never updated: every shaded cell to the
\* left is counted, not only the adjacent run.
RECURSIVE numLeftNoBlock(_, _, _, _, _)
numLeftNoBlock(Cv, i, y, blocked, acc) ==
    IF y > 0
    THEN numLeftNoBlock(Cv, i, y - 1, blocked,
                        acc + (IF ~Cv[<<i, y - 1>>] /\ ~blocked THEN 1 ELSE 0))
    ELSE acc

RECURSIVE numLeft(_, _, _, _, _)
numLeft(Cv, i, y, blocked, acc) ==
    IF y > 0
    THEN numLeft(Cv, i, y - 1, blocked \/ Cv[<<i, y - 1>>],
                 acc + (IF ~Cv[<<i, y - 1>>] /\ ~blocked THEN 1 ELSE 0))
    ELSE acc

RECURSIVE numRight(_, _, _, _, _, _)
numRight(Cv, nc, i, y, blocked, acc) ==
    IF y < nc - 1
    THEN numRight(Cv, nc, i, y + 1, blocked \/ Cv[<<i, y + 1>>],
                  IF ~Cv[<<i, y + 1>>] /\ ~blocked THEN acc + 1 ELSE acc)
    ELSE acc

RECURSIVE numUp(_, _, _, _, _)
numUp(Cv, j, x, blocked, acc) ==
    IF x > 0
    THEN numUp(Cv, j, x - 1, blocked \/ Cv[<<x - 1, j>>],
               IF ~Cv[<<x - 1, j>>] /\ ~blocked THEN acc + 1 ELSE acc)
    ELSE acc

RECURSIVE numDown(_, _, _, _, _, _)
numDown(Cv, nr, j, x, blocked, acc) ==
    IF x < nr - 1
    THEN numDown(Cv, nr, j, x + 1, blocked \/ Cv[<<x + 1, j>>],
                 IF ~Cv[<<x + 1, j>>] /\ ~blocked THEN acc + 1 ELSE acc)
    ELSE acc

\* numLeft + numRight + numUp + numDown of line 175.
ClueSum(Cv, nr, nc, i, j) ==
    numLeft(Cv, i, j, FALSE, 0) + numRight(Cv, nc, i, j, FALSE, 0)
    + numUp(Cv, j, i, FALSE, 0) + numDown(Cv, nr, j, i, FALSE, 0)

---------------------------------------------------------------------------
(* canal.py add_constraints: the constraints added for one cell. *)

\* Lines 140-175: "if grid[i][j] is not None" / "if grid[i][j] != '?'".
\* IntVal of an int is that int; every int, negative ones too, is taken as
\* a numeric clue.
EncHasClue(m) == m # None

EncHasCount(m) == m # None /\ m # QMark

ClueConstraints(g, nr, nc, a, i, j) ==
    EncHasClue(g[<<i, j>>]) =>
        /\ a.C[<<i, j>>]
        /\ EncHasCount(g[<<i, j>>]) =>
              g[<<i, j>>].n = ClueSum(a.C, nr, nc, i, j)

\* Lines 177-181.
RootConstraints(a, i, j) ==
    /\ a.R[<<i, j>>] => ~a.C[<<i, j>>]
    /\ a.R[<<i, j>>] => (absent_edge(a.H[<<i, j>>]) /\ absent_edge(a.V[<<i, j>>]))

\* Lines 183-187.
Legal(a, i, j) == legal_edge(a.H[<<i, j>>]) /\ legal_edge(a.V[<<i, j>>])

\* Lines 189-191.
No2x2(a, nr, nc, i, j) ==
    (i < nr - 1 /\ j < nc - 1) =>
        ~(~a.C[<<i, j>>] /\ ~a.C[<<i + 1, j>>]
          /\ ~a.C[<<i, j + 1>>] /\ ~a.C[<<i + 1, j + 1>>])

\* Line 194.
OneArrow(a, i, j) ==
    (~a.C[<<i, j>>] /\ ~a.R[<<i, j>>]) =>
        PbCount(a.H[<<i, j>>]) + PbCount(a.V[<<i, j>>]) = 1

\* Lines 196-218.
EdgeConstraints(a, nr, nc, i, j) ==
    /\ IF j > 0
       THEN /\ a.H[<<i, j>>][0] => ~a.H[<<i, j - 1>>][1]
            /\ (~a.C[<<i, j>>] /\ a.H[<<i, j>>][0]) => ~a.C[<<i, j - 1>>]
       ELSE ~a.H[<<i, j>>][0]
    /\ IF j < nc - 1
       THEN /\ a.H[<<i, j>>][1] => ~a.H[<<i, j + 1>>][0]
            /\ (~a.C[<<i, j>>] /\ a.H[<<i, j>>][1]) => ~a.C[<<i, j + 1>>]
       ELSE ~a.H[<<i, j>>][1]
    /\ IF i > 0
       THEN /\ a.V[<<i, j>>][1] => ~a.V[<<i - 1, j>>][0]
            /\ (~a.C[<<i, j>>] /\ a.V[<<i, j>>][1]) => ~a.C[<<i - 1, j>>]
       ELSE ~a.V[<<i, j>>][1]
    /\ IF i < nr - 1
       THEN /\ a.V[<<i, j>>][0] => ~a.V[<<i + 1, j>>][1]
            /\ (~a.C[<<i, j>>] /\ a.V[<<i, j>>][0]) => ~a.C[<<i + 1, j>>]
       ELSE ~a.V[<<i, j>>][0]

\* Lines 220-246.
ParityConstraints(a, nr, nc, i, j) ==
    /\ (j > 0 /\ j < nc - 1) =>
          /\ (a.H[<<i, j - 1>>][1] /\ a.H[<<i, j>>][1]) => (a.P[<<i, j - 1>>] = a.P[<<i, j>>])
          /\ (a.H[<<i, j + 1>>][0] /\ a.H[<<i, j>>][0]) => (a.P[<<i, j + 1>>] = a.P[<<i, j>>])
    /\ (i > 0 /\ i < nr - 1) =>
          /\ (a.V[<<i - 1, j>>][0] /\ a.V[<<i, j>>][0]) => (a.P[<<i - 1, j>>] = a.P[<<i, j>>])
          /\ (a.V[<<i + 1, j>>][1] /\ a.V[<<i, j>>][1]) => (a.P[<<i + 1, j>>] = a.P[<<i, j>>])
    /\ (j < nc - 1 /\ i > 0) =>
          /\ (a.H[<<i, j + 1>>][0] /\ a.V[<<i, j>>][1]) => (a.P[<<i, j + 1>>] = a.P[<<i, j>>])
          /\ (a.V[<<i - 1, j>>][0] /\ a.H[<<i, j>>][1]) => (a.P[<<i - 1, j>>] = a.P[<<i, j>>])
    /\ (i < nr - 1 /\ j > 0) =>
          /\ (a.V[<<i + 1, j>>][1] /\ a.H[<<i, j>>][0]) => (a.P[<<i + 1, j>>] = a.P[<<i, j>>])
          /\ (a.H[<<i, j - 1>>][1] /\ a.V[<<i, j>>][0]) => (a.P[<<i, j - 1>>] = a.P[<<i, j>>])
    /\ (i > 0 /\ j > 0) =>
          /\ (a.V[<<i - 1, j>>][0] /\ a.H[<<i, j>>][0]) => (a.P[<<i - 1, j>>] = a.P[<<i, j>>])
          /\ (a.H[<<i, j - 1>>][1] /\ a.V[<<i, j>>][1]) => (a.P[<<i, j - 1>>] # a.P[<<i, j>>])
    /\ (j < nc - 1 /\ i < nr - 1) =>
          /\ (a.H[<<i, j + 1>>][0] /\ a.V[<<i, j>>][0]) => (a.P[<<i, j + 1>>] = a.P[<<i, j>>])
          /\ (a.V[<<i + 1, j>>][1] /\ a.H[<<i, j>>][1]) => (a.P[<<i + 1, j>>] # a.P[<<i, j>>])

\* Line 135: exactly one root cell.
OneRoot(a) == PbCount(a.R) = 1

\* All constraints add_constraints(grid, slv, C, H, V, P, R) adds to slv,
\* as a predicate on a total assignment a.
add_constraints(g, nr, nc, a) ==
    /\ OneRoot(a)
    /\ \A cell \in Cells(nr, nc) :
          LET i == cell[1]
              j == cell[2]
          IN  /\ ClueConstraints(g, nr, nc, a, i, j)
              /\ RootConstraints(a, i, j)
              /\ Legal(a, i, j)
              /\ No2x2(a, nr, nc, i, j)
              /\ OneArrow(a, i, j)
              /\ EdgeConstraints(a, nr, nc, i, j)
              /\ ParityConstraints(a, nr, nc, i, j)

---------------------------------------------------------------------------
(* The z3 oracle: the assignments that satisfy what has been asserted.     *)
(* The candidates are enumerated shading first, discarding early those     *)
(* that break a constraint of a single cell; add_constraints is then       *)
(* applied in full to every candidate, so Models is exactly the set of     *)
(* satisfying assignments.                                                 *)

RootChoices(nr, nc, Cv) ==
    {[x \in Cells(nr, nc) |-> x = r] : r \in {c \in Cells(nr, nc) : ~Cv[c]}}

\* The <<H, V>> pairs of one cell that the constraints on that cell alone
\* allow (lines 181, 187, 194, 203, 208, 213, 218).
CellEdges(nr, nc, Cv, Rv, cell) ==
    {hv \in EdgePairs \X EdgePairs :
        /\ legal_edge(hv[1]) /\ legal_edge(hv[2])
        /\ cell[2] = 0 => ~hv[1][0]
        /\ cell[2] = nc - 1 => ~hv[1][1]
        /\ cell[1] = 0 => ~hv[2][1]
        /\ cell[1] = nr - 1 => ~hv[2][0]
        /\ Rv[cell] => (absent_edge(hv[1]) /\ absent_edge(hv[2]))
        /\ (~Cv[cell] /\ ~Rv[cell]) => PbCount(hv[1]) + PbCount(hv[2]) = 1}

\* All functions on the cells S whose value at each cell is in CellEdges.
RECURSIVE EdgeChoices(_, _, _, _, _)
EdgeChoices(nr, nc, Cv, Rv, S) ==
    IF S = {} THEN {<<>>}
    ELSE LET c == CHOOSE x \in S : TRUE
         IN  {(c :> hv) @@ f : hv \in CellEdges(nr, nc, Cv, Rv, c),
                               f \in EdgeChoices(nr, nc, Cv, Rv, S \ {c})}

\* The constraints that read only the shading (lines 140-175, 189-191).
ShadingOK(g, nr, nc, Cv) ==
    \A cell \in Cells(nr, nc) :
        /\ ClueConstraints(g, nr, nc, [C |-> Cv], cell[1], cell[2])
        /\ No2x2([C |-> Cv], nr, nc, cell[1], cell[2])

Assignment(Cv, Rv, e, Pv) ==
    [C |-> Cv, H |-> [c \in DOMAIN Cv |-> e[c][1]], V |-> [c \in DOMAIN Cv |-> e[c][2]],
     P |-> Pv, R |-> Rv]

\* The satisfying assignments of add_constraints(g) whose shading is Cv.
ModelsOf(g, nr, nc, Cv) ==
    IF ~ShadingOK(g, nr, nc, Cv) THEN {} ELSE
    UNION {
      UNION {
        {a \in {Assignment(Cv, Rv, e, Pv) : Pv \in [Cells(nr, nc) -> BOOLEAN]} :
            add_constraints(g, nr, nc, a)}
        : e \in EdgeChoices(nr, nc, Cv, Rv, Cells(nr, nc))}
      : Rv \in RootChoices(nr, nc, Cv)}

\* Whether some satisfying assignment has the shading Cv.
Extends(g, nr, nc, Cv) ==
    /\ ShadingOK(g, nr, nc, Cv)
    /\ \E Rv \in RootChoices(nr, nc, Cv) :
      \E e \in EdgeChoices(nr, nc, Cv, Rv, Cells(nr, nc)) :
        \E Pv \in [Cells(nr, nc) -> BOOLEAN] :
            add_constraints(g, nr, nc, Assignment(Cv, Rv, e, Pv))

\* The shadings that extend to a model of add_constraints(g).
SatShadings(g, nr, nc) ==
    {Cv \in Shadings(nr, nc) : Extends(g, nr, nc, Cv)}

---------------------------------------------------------------------------
(* canal.py evaluate_model, lines 39-58. *)

\* The arrow character of one cell, lines 43-53.
Arrow(h, v) ==
    IF absent_edge(h) /\ absent_edge(v) THEN " "
    ELSE IF up_right_edge(v) /\ absent_edge(h) THEN "^"
    ELSE IF down_left_edge(v) /\ absent_edge(h) THEN "v"
    ELSE IF up_right_edge(h) /\ absent_edge(v) THEN ">"
    ELSE IF down_left_edge(h) /\ absent_edge(v) THEN "<"
    ELSE "?"

\* Cbool, Estr, Pbool, Rbool of a model.
evaluate_model(m) ==
    [Cbool |-> m.C,
     Estr  |-> [cell \in DOMAIN m.C |-> Arrow(m.H[cell], m.V[cell])],
     Pbool |-> m.P,
     Rbool |-> m.R]

---------------------------------------------------------------------------
(* canalverify.py *)

\* get_neighbors without the left neighbour.
get_neighborsNoLeft(current, Cv, nr, nc) ==
    LET i == current[1]
        j == current[2]
    IN  (IF i > 0 /\ ~Cv[<<i - 1, j>>] THEN {<<i - 1, j>>} ELSE {})
        \cup (IF i < nr - 1 /\ ~Cv[<<i + 1, j>>] THEN {<<i + 1, j>>} ELSE {})
        \cup (IF j < nc - 1 /\ ~Cv[<<i, j + 1>>] THEN {<<i, j + 1>>} ELSE {})

\* get_neighbors(current, C): the shaded 4-neighbours of current.
get_neighbors(current, Cv, nr, nc) ==
    LET i == current[1]
        j == current[2]
    IN  (IF i > 0 /\ ~Cv[<<i - 1, j>>] THEN {<<i - 1, j>>} ELSE {})
        \cup (IF i < nr - 1 /\ ~Cv[<<i + 1, j>>] THEN {<<i + 1, j>>} ELSE {})
        \cup (IF j > 0 /\ ~Cv[<<i, j - 1>>] THEN {<<i, j - 1>>} ELSE {})
        \cup (IF j < nc - 1 /\ ~Cv[<<i, j + 1>>] THEN {<<i, j + 1>>} ELSE {})

\* The four loops of visible_canal: count shaded cells until the first
\* unshaded one (break) or the edge.
RECURSIVE goUp(_, _, _)
goUp(Cv, k, j) ==
    IF k >= 0 /\ ~Cv[<<k, j>>] THEN 1 + goUp(Cv, k - 1, j) ELSE 0

RECURSIVE goDown(_, _, _, _)
goDown(Cv, nr, k, j) ==
    IF k < nr /\ ~Cv[<<k, j>>] THEN 1 + goDown(Cv, nr, k + 1, j) ELSE 0

RECURSIVE goLeft(_, _, _)
goLeft(Cv, i, k) ==
    IF k >= 0 /\ ~Cv[<<i, k>>] THEN 1 + goLeft(Cv, i, k - 1) ELSE 0

RECURSIVE goRight(_, _, _, _)
goRight(Cv, nc, i, k) ==
    IF k < nc /\ ~Cv[<<i, k>>] THEN 1 + goRight(Cv, nc, i, k + 1) ELSE 0

visible_canal(i, j, Cv, nr, nc) ==
    goUp(Cv, i - 1, j) + goDown(Cv, nr, i + 1, j)
    + goLeft(Cv, i, j - 1) + goRight(Cv, nc, i, j + 1)

\* Row-major order of the nested "for i / for j" loops.
RowMajorLess(a, b) == a[1] < b[1] \/ (a[1] = b[1] /\ a[2] < b[2])

First(S) == CHOOSE x \in S : \A y \in S : y = x \/ RowMajorLess(x, y)

\* find_first_shaded(C); called only when some cell is shaded.
find_first_shaded(Cv) == First({c \in DOMAIN Cv : ~Cv[c]})

\* Lines 77-80: the first fully shaded 2x2 window raises ValueError.
Shaded2x2(Cv, nr, nc) ==
    \E i \in 0 .. nr - 2 : \E j \in 0 .. nc - 2 :
        ~(Cv[<<i, j>>] \/ Cv[<<i, j + 1>>] \/ Cv[<<i + 1, j>>] \/ Cv[<<i + 1, j + 1>>])

\* Lines 84-91 for one cell: "clue > -2" and "clue >= 0" compare the cell's
\* Python value with an int, which raises TypeError for None and for a str.
VerHasClue(m) == m.n > -2

VerHasCount(m) == m.n >= 0

ClueCheck(g, Cv, nr, nc, cell) ==
    IF g[cell].tag # "int" THEN "TypeError"
    ELSE IF ~VerHasClue(g[cell]) THEN "ok"
    ELSE IF ~Cv[cell] THEN "ShadedClue"
    ELSE IF VerHasCount(g[cell]) /\ visible_canal(cell[1], cell[2], Cv, nr, nc) # g[cell].n
         THEN "ClueMismatch"
    ELSE "ok"

\* Lines 82-91: the first cell, in row-major order, whose check raises.
ClueLoop(g, Cv, nr, nc) ==
    LET bad == {c \in Cells(nr, nc) : ClueCheck(g, Cv, nr, nc, c) # "ok"}
    IN  IF bad = {} THEN "ok" ELSE ClueCheck(g, Cv, nr, nc, First(bad))

\* Lines 93-97.
TotalCount(Cv) == Cardinality({c \in DOMAIN Cv : ~Cv[c]})

\* One iteration of the while loop of lines 110-115 with current popped:
\* the new <<reached, work>>.
TraverseStep(rs, ws, current, Cv, nr, nc) ==
    LET r2 == rs \cup {current}
    IN  <<r2, (ws \ {current}) \cup {c \in get_neighbors(current, Cv, nr, nc) : c \notin r2}>>

\* Lines 107-115 run to the end; set.pop() takes an arbitrary element.
RECURSIVE Traverse(_, _, _, _, _)
Traverse(rs, ws, Cv, nr, nc) ==
    IF ws = {} THEN rs
    ELSE LET current == CHOOSE x \in ws : TRUE
             st == TraverseStep(rs, ws, current, Cv, nr, nc)
         IN  Traverse(st[1], st[2], Cv, nr, nc)

\* Lines 76-101 of verify: the checks before the traversal.  "ok" means
\* verify goes on to line 103.
PreChecks(g, Cv, nr, nc) ==
    IF Shaded2x2(Cv, nr, nc) THEN "Shaded2x2"
    ELSE IF ClueLoop(g, Cv, nr, nc) # "ok" THEN ClueLoop(g, Cv, nr, nc)
    ELSE IF TotalCount(Cv) = 0 THEN "return"
    ELSE "ok"

\* verify(grid, C, allow_weak): "ok" when it returns, else what it raises
\* ("TypeError", or the ValueError named by its message).
verify(g, Cv, weak, nr, nc) ==
    LET pre == PreChecks(g, Cv, nr, nc)
    IN  IF pre = "return" THEN "ok"
        ELSE IF pre # "ok" THEN pre
        ELSE IF weak THEN "ok"
        ELSE IF Cardinality(Traverse({}, {find_first_shaded(Cv)}, Cv, nr, nc)) # TotalCount(Cv)
             THEN "Unreached"
        ELSE "ok"

---------------------------------------------------------------------------
(* canal.py solve_and_print, lines 60-105, one action per step of the loop. *)
(*                                                                         *)
(* encGrid is the grid add_constraints was called with (line 297), grid    *)
(* the one solve_and_print was called with (line 305).  __main__ passes    *)
(* the same grid to both: MainCall.  solve_and_print itself takes any      *)
(* loaded solver, so the runs modelled also cover a solver loaded from     *)
(* another rendering of the same puzzle (None or -2 for "no clue", '?' or  *)
(* -1 for a wildcard clue).                                                *)

MainCall == encGrid = grid

PuzzleClass(m) ==
    IF m = None \/ m = PyInt(-2) THEN "noclue"
    ELSE IF m = QMark \/ m = PyInt(-1) THEN "wildcard"
    ELSE "numeric"

SamePuzzle(g1, g2) ==
    \A c \in DOMAIN g1 :
        /\ PuzzleClass(g1[c]) = PuzzleClass(g2[c])
        /\ PuzzleClass(g1[c]) = "numeric" => g1[c] = g2[c]

\* Values of the variables a specification does not use.
Unused == <<>>

\* args.slimit: None, or the cap.
Limits == {None} \cup {PyInt(k) : k \in 1 .. MaxLimit}

\* Line 98: the matrix of values the blocking clause is built from.
BlockOf(m) == m.C

\* The blocking clause built with == in place of !=.
SatisfiesBlockEq(Cv, b) == \E c \in DOMAIN Cv : Cv[c] = b[c]

\* Lines 98-100: Or(C[i][j] != value ...) holds of the shading Cv.
SatisfiesBlock(Cv, b) == \E c \in DOMAIN Cv : Cv[c] # b[c]

\* The shadings the solver's assertions still admit.
Admitted ==
    {Cv \in Shadings(nrow, ncol) :
        /\ \A k \in 1 .. Len(blocks) : SatisfiesBlock(Cv, blocks[k])
        /\ Extends(encGrid, nrow, ncol, Cv)}

\* Lines 102-105.
Summary(n) == IF n = 0 THEN "No solution found" ELSE "Total solutions found"

InputVars == <<nrow, ncol, grid, encGrid, slimit>>

VerifyVars == <<allow_weak, totalcount, reached, work, vresult>>

CountVars == <<ci, cj, encSum, visible>>

Init ==
    /\ \E sh \in Shapes : nrow = sh[1] /\ ncol = sh[2]
    /\ grid \in Grids(nrow, ncol)
    /\ encGrid \in {g \in Grids(nrow, ncol) : SamePuzzle(grid, g)}
    /\ slimit \in Limits
    /\ pc = "check"
    /\ blocks = <<>>
    /\ mdl = Unused
    /\ Cbool = Unused
    /\ Estr = Unused
    /\ num_solutions = 0
    /\ reported = <<>>
    /\ summary = ""
    /\ lastCheck = "none"
    /\ allow_weak = TRUE
    /\ totalcount = 0
    /\ reached = {}
    /\ work = {}
    /\ vresult = ""
    /\ ci = 0
    /\ cj = 0
    /\ encSum = 0
    /\ visible = 0

\* Line 75, check() = sat; line 76, model(): any satisfying assignment.
CheckSat ==
    /\ pc = "check"
    /\ \E Cv \in Admitted :
         \E m \in ModelsOf(encGrid, nrow, ncol, Cv) :
            mdl' = m
    /\ lastCheck' = "sat"
    /\ pc' = "model"
    /\ UNCHANGED <<blocks, Cbool, Estr, num_solutions, reported, summary>>
    /\ UNCHANGED <<InputVars, VerifyVars, CountVars>>

\* Line 75, check() = unsat: the loop ends, lines 102-105 print the summary.
CheckUnsat ==
    /\ pc = "check"
    /\ Admitted = {}
    /\ lastCheck' = "unsat"
    /\ summary' = Summary(num_solutions)
    /\ pc' = "Done"
    /\ UNCHANGED <<blocks, mdl, Cbool, Estr, num_solutions, reported>>
    /\ UNCHANGED <<InputVars, VerifyVars, CountVars>>

\* Line 75, check() = unknown: "unknown == sat" is false, the loop ends and
\* lines 102-105 print the summary.
CheckUnknown ==
    /\ pc = "check"
    /\ lastCheck' = "unknown"
    /\ summary' = Summary(num_solutions)
    /\ pc' = "Done"
    /\ UNCHANGED <<blocks, mdl, Cbool, Estr, num_solutions, reported>>
    /\ UNCHANGED <<InputVars, VerifyVars, CountVars>>

\* Line 77.
Evaluate ==
    /\ pc = "model"
    /\ Cbool' = evaluate_model(mdl).Cbool
    /\ Estr' = evaluate_model(mdl).Estr
    /\ pc' = "verify"
    /\ UNCHANGED <<blocks, mdl, num_solutions, reported, summary, lastCheck>>
    /\ UNCHANGED <<InputVars, VerifyVars, CountVars>>

\* Line 78, verify returns.
VerifyReturns ==
    /\ pc = "verify"
    /\ verify(grid, Cbool, TRUE, nrow, ncol) = "ok"
    /\ pc' = "report"
    /\ UNCHANGED <<blocks, mdl, Cbool, Estr, num_solutions, reported, summary, lastCheck>>
    /\ UNCHANGED <<InputVars, VerifyVars, CountVars>>

\* Line 78, verify raises: nothing catches it, the run ends with the
\* exception.
VerifyRaises ==
    /\ pc = "verify"
    /\ verify(grid, Cbool, TRUE, nrow, ncol) # "ok"
    /\ pc' = (IF verify(grid, Cbool, TRUE, nrow, ncol) = "TypeError"
              THEN "TypeError" ELSE "ValueError")
    /\ UNCHANGED <<blocks, mdl, Cbool, Estr, num_solutions, reported, summary, lastCheck>>
    /\ UNCHANGED <<InputVars, VerifyVars, CountVars>>

\* Line 94: slimit is not None and num_solutions >= slimit.
LimitReached(n) == slimit # None /\ n >= slimit.n

\* Lines 80-95 when the cap is reached: print, count, break, summary.
ReportAndBreak ==
    /\ pc = "report"
    /\ LimitReached(num_solutions + 1)
    /\ reported' = Append(reported, Cbool)
    /\ num_solutions' = num_solutions + 1
    /\ summary' = Summary(num_solutions + 1)
    /\ pc' = "Done"
    /\ UNCHANGED <<blocks, mdl, Cbool, Estr, lastCheck>>
    /\ UNCHANGED <<InputVars, VerifyVars, CountVars>>

\* Lines 80-100 otherwise: print, count, add the blocking clause.
ReportAndBlock ==
    /\ pc = "report"
    /\ ~LimitReached(num_solutions + 1)
    /\ reported' = Append(reported, Cbool)
    /\ num_solutions' = num_solutions + 1
    /\ blocks' = Append(blocks, BlockOf(mdl))
    /\ pc' = "check"
    /\ UNCHANGED <<mdl, Cbool, Estr, summary, lastCheck>>
    /\ UNCHANGED <<InputVars, VerifyVars, CountVars>>

Next ==
    \/ CheckSat
    \/ CheckUnsat
    \/ CheckUnknown
    \/ Evaluate
    \/ VerifyReturns
    \/ VerifyRaises
    \/ ReportAndBreak
    \/ ReportAndBlock

Spec == Init /\ [][Next]_vars

---------------------------------------------------------------------------
(* The first iteration of __main__ on larger grids, with the decoded       *)
(* shading then handed to verify in strict mode (allow_weak=False).        *)

InitEnc ==
    /\ \E sh \in EncShapes : nrow = sh[1] /\ ncol = sh[2]
    /\ grid \in Grids(nrow, ncol)
    /\ encGrid = grid
    /\ slimit = None
    /\ pc = "check"
    /\ blocks = <<>>
    /\ mdl = Unused
    /\ Cbool = Unused
    /\ Estr = Unused
    /\ num_solutions = 0
    /\ reported = <<>>
    /\ summary = ""
    /\ lastCheck = "none"
    /\ allow_weak = FALSE
    /\ totalcount = 0
    /\ reached = {}
    /\ work = {}
    /\ vresult = ""
    /\ ci = 0
    /\ cj = 0
    /\ encSum = 0
    /\ visible = 0

\* verify(grid, Cbool, allow_weak=False) on the decoded shading.
VerifyStrict ==
    /\ pc = "verify"
    /\ allow_weak = FALSE
    /\ vresult' = verify(grid, Cbool, allow_weak, nrow, ncol)
    /\ pc' = "verified"
    /\ UNCHANGED <<blocks, mdl, Cbool, Estr, num_solutions, reported, summary, lastCheck>>
    /\ UNCHANGED <<InputVars, CountVars, allow_weak, totalcount, reached, work>>

NextEnc ==
    \/ CheckSat
    \/ CheckUnsat
    \/ Evaluate
    \/ VerifyStrict

SpecEnc == InitEnc /\ [][NextEnc]_vars

---------------------------------------------------------------------------
(* The clue count: the encoder's integer term against visible_canal, for   *)
(* every shading of a grid and every cell of it.                           *)

\* Grid shapes of the clue count runs.
CountShapes == {<<1, 1>>, <<2, 2>>, <<3, 3>>, <<2, 4>>, <<3, 5>>}

InitCount ==
    /\ \E sh \in CountShapes : nrow = sh[1] /\ ncol = sh[2]
    /\ Cbool \in Shadings(nrow, ncol)
    /\ ci \in 0 .. nrow - 1
    /\ cj \in 0 .. ncol - 1
    /\ pc = "count"
    /\ encSum = 0
    /\ visible = 0
    /\ grid = Unused
    /\ encGrid = Unused
    /\ slimit = None
    /\ blocks = <<>>
    /\ mdl = Unused
    /\ Estr = Unused
    /\ num_solutions = 0
    /\ reported = <<>>
    /\ summary = ""
    /\ lastCheck = "none"
    /\ allow_weak = FALSE
    /\ totalcount = 0
    /\ reached = {}
    /\ work = {}
    /\ vresult = ""

\* canal.py lines 146-175: the value of numLeft + numRight + numUp + numDown.
EncoderCount ==
    /\ pc = "count"
    /\ encSum' = ClueSum(Cbool, nrow, ncol, ci, cj)
    /\ pc' = "encoded"
    /\ UNCHANGED <<InputVars, VerifyVars, ci, cj, visible>>
    /\ UNCHANGED <<blocks, mdl, Cbool, Estr, num_solutions, reported, summary, lastCheck>>

\* canalverify.py line 89.
VerifierCount ==
    /\ pc = "encoded"
    /\ visible' = visible_canal(ci, cj, Cbool, nrow, ncol)
    /\ pc' = "counted"
    /\ UNCHANGED <<InputVars, VerifyVars, ci, cj, encSum>>
    /\ UNCHANGED <<blocks, mdl, Cbool, Estr, num_solutions, reported, summary, lastCheck>>

NextCount ==
    \/ EncoderCount
    \/ VerifierCount

SpecCount == InitCount /\ [][NextCount]_vars

---------------------------------------------------------------------------
(* canalverify.py verify, step by step: the checks of lines 76-101, then   *)
(* one action per iteration of the worklist loop of lines 110-115.         *)

\* Grid shapes of the verifier runs; on BigShape only the grid without
\* clues is tried.
VerifyShapes == {<<1, 1>>, <<1, 3>>, <<2, 2>>, <<2, 3>>}

BigShape == <<3, 3>>

\* Largest number of cells of a verifier grid that are not "no clue" (-2).
MaxClueCells == 1

VerifyGrids(nr, nc) ==
    IF <<nr, nc>> = BigShape
    THEN {[c \in Cells(nr, nc) |-> PyInt(-2)]}
    ELSE {g \in Grids(nr, nc) :
            Cardinality({c \in Cells(nr, nc) : g[c] # PyInt(-2)}) <= MaxClueCells}

InitVerify ==
    /\ \E sh \in VerifyShapes \cup {BigShape} : nrow = sh[1] /\ ncol = sh[2]
    /\ grid \in VerifyGrids(nrow, ncol)
    /\ Cbool \in Shadings(nrow, ncol)
    /\ allow_weak \in BOOLEAN
    /\ pc = "verify"
    /\ totalcount = 0
    /\ reached = {}
    /\ work = {}
    /\ vresult = ""
    /\ encGrid = Unused
    /\ slimit = None
    /\ blocks = <<>>
    /\ mdl = Unused
    /\ Estr = Unused
    /\ num_solutions = 0
    /\ reported = <<>>
    /\ summary = ""
    /\ lastCheck = "none"
    /\ ci = 0
    /\ cj = 0
    /\ encSum = 0
    /\ visible = 0

VerifyFrame ==
    /\ UNCHANGED <<InputVars, CountVars, allow_weak>>
    /\ UNCHANGED <<blocks, mdl, Cbool, Estr, num_solutions, reported, summary, lastCheck>>

\* Lines 76-91: a 2x2 or clue check raises.
ChecksRaise ==
    /\ pc = "verify"
    /\ PreChecks(grid, Cbool, nrow, ncol) \notin {"ok", "return"}
    /\ vresult' = PreChecks(grid, Cbool, nrow, ncol)
    /\ pc' = "vdone"
    /\ UNCHANGED <<totalcount, reached, work>>
    /\ VerifyFrame

\* Lines 93-101: no shaded cell, verify returns.
NoShadedReturn ==
    /\ pc = "verify"
    /\ PreChecks(grid, Cbool, nrow, ncol) = "return"
    /\ totalcount' = TotalCount(Cbool)
    /\ vresult' = "ok"
    /\ pc' = "vdone"
    /\ UNCHANGED <<reached, work>>
    /\ VerifyFrame

\* Lines 103-106 with allow_weak: the traversal is skipped.
WeakReturn ==
    /\ pc = "verify"
    /\ PreChecks(grid, Cbool, nrow, ncol) = "ok"
    /\ allow_weak
    /\ totalcount' = TotalCount(Cbool)
    /\ vresult' = "ok"
    /\ pc' = "vdone"
    /\ UNCHANGED <<reached, work>>
    /\ VerifyFrame

\* Lines 103-108: reached = set(), work = {root}.
StartTraversal ==
    /\ pc = "verify"
    /\ PreChecks(grid, Cbool, nrow, ncol) = "ok"
    /\ ~allow_weak
    /\ totalcount' = TotalCount(Cbool)
    /\ reached' = {}
    /\ work' = {find_first_shaded(Cbool)}
    /\ pc' = "traverse"
    /\ UNCHANGED vresult
    /\ VerifyFrame

\* Lines 110-115: one iteration; pop() takes any element of work.
Pop ==
    /\ pc = "traverse"
    /\ work # {}
    /\ \E current \in work :
         /\ reached' = TraverseStep(reached, work, current, Cbool, nrow, ncol)[1]
         /\ work' = TraverseStep(reached, work, current, Cbool, nrow, ncol)[2]
    /\ UNCHANGED <<pc, totalcount, vresult>>
    /\ VerifyFrame

\* Lines 117-118.
Compare ==
    /\ pc = "traverse"
    /\ work = {}
    /\ vresult' = (IF Cardinality(reached) # totalcount THEN "Unreached" ELSE "ok")
    /\ pc' = "vdone"
    /\ UNCHANGED <<totalcount, reached, work>>
    /\ VerifyFrame

NextVerify ==
    \/ ChecksRaise
    \/ NoShadedReturn
    \/ WeakReturn
    \/ StartTraversal
    \/ Pop
    \/ Compare

\* verify runs in one thread without waiting: a step that can be taken is
\* taken.
SpecVerify == InitVerify /\ [][NextVerify]_vars /\ WF_vars(NextVerify)

---------------------------------------------------------------------------
(* Properties. *)

ReportedSet == {reported[k] : k \in 1 .. Len(reported)}

Crashed == pc \in {"TypeError", "ValueError"}

Min(a, b) == IF a <= b THEN a ELSE b

\* C1: in one run of solve_and_print the shadings reported so far are
\* pairwise distinct, and the model in hand differs in some cell's shading
\* from every shading reported before it.
C1_DistinctShadings ==
    /\ \A a, b \in 1 .. Len(reported) : a # b => reported[a] # reported[b]
    /\ pc \in {"model", "verify", "report"} =>
          \A k \in 1 .. Len(reported) : \E c \in DOMAIN mdl.C : mdl.C[c] # reported[k][c]

\* C1 witness: a third model is in hand after two reported solutions and
\* two blocking clauses.
C1_Witness ==
    /\ pc = "model"
    /\ Len(reported) = 2
    /\ Len(blocks) = 2

\* C2: after check() returned unknown, solve_and_print prints neither
\* "# No solution found" nor "# Total solutions found"; it signals an error.
C2_UnknownIsAnError == lastCheck = "unknown" => summary = ""

\* C3: every decoded shading of a satisfying assignment passes
\* verify(grid, Cbool, allow_weak=False).
C3_Soundness == pc = "verified" => vresult = "ok"

\* C4: every shading verify accepts in strict mode extends to a satisfying
\* assignment of add_constraints; for the 1x1 grid with a wildcard clue the
\* all-unshaded shading is such a shading.
C4_Completeness ==
    /\ \A Cv \in Shadings(nrow, ncol) :
          verify(grid, Cv, FALSE, nrow, ncol) = "ok" => Extends(encGrid, nrow, ncol, Cv)
    /\ (nrow = 1 /\ ncol = 1 /\ PuzzleClass(grid[<<0, 0>>]) = "wildcard") =>
          Extends(encGrid, nrow, ncol, [c \in Cells(1, 1) |-> TRUE])

\* C5: without a cap and with an oracle that answers only sat or unsat, the
\* run of __main__ ends at Done, having reported exactly the shadings that
\* extend to a model, each once; when there is none, nothing is blocked and
\* nothing is reported.
C5_ExactEnumeration ==
    (MainCall /\ slimit = None /\ lastCheck # "unknown") =>
        /\ pc = "Done" \/ ENABLED Next
        /\ pc = "Done" =>
              /\ ReportedSet = SatShadings(grid, nrow, ncol)
              /\ Len(reported) = Cardinality(ReportedSet)
              /\ Len(reported) <= 2 ^ (nrow * ncol)
              /\ SatShadings(grid, nrow, ncol) = {} => (blocks = <<>> /\ num_solutions = 0)

\* C6: with a cap k >= 1 on a grid with N satisfying shadings, the run of
\* __main__ reports exactly min(k, N) solutions, and when the count reaches
\* k it has added k - 1 blocking clauses and ends on a sat check.
C6_CapExact ==
    (MainCall /\ slimit # None /\ lastCheck # "unknown" /\ (pc = "Done" \/ Crashed)) =>
        /\ num_solutions = Min(slimit.n, Cardinality(SatShadings(grid, nrow, ncol)))
        /\ Len(reported) = num_solutions
        /\ num_solutions = slimit.n => (Len(blocks) = slimit.n - 1 /\ lastCheck = "sat")

\* The clue variant the encoder takes a marker for (lines 141-145).
EncVariant(m) ==
    IF ~EncHasClue(m) THEN "noclue"
    ELSE IF ~EncHasCount(m) THEN "wildcard"
    ELSE "numeric"

\* The clue variant the verifier takes a marker for (lines 84-91).
VerVariant(m) ==
    IF m.tag # "int" THEN "TypeError"
    ELSE IF ~VerHasClue(m) THEN "noclue"
    ELSE IF ~VerHasCount(m) THEN "wildcard"
    ELSE "numeric"

\* C7: for the one grid passed to add_constraints and to verify, both take
\* every cell for the same clue variant, and neither fails on it.
C7_SameVariant ==
    MainCall => \A c \in Cells(nrow, ncol) : EncVariant(encGrid[c]) = VerVariant(grid[c])

\* The run of shaded cells adjacent to (i, j) in direction (di, dj).
RunLength(Cv, nr, nc, i, j, di, dj) ==
    Cardinality({k \in 1 .. nr + nc :
        \A t \in 1 .. k :
            /\ <<i + t * di, j + t * dj>> \in Cells(nr, nc)
            /\ ~Cv[<<i + t * di, j + t * dj>>]})

\* C8: the encoder's numLeft + numRight + numUp + numDown and
\* visible_canal(i, j, C) are the same number, the sum over the four
\* directions of the run of shaded cells adjacent to (i, j).
C8_CountAgreement ==
    pc = "counted" =>
        /\ encSum = visible
        /\ visible = RunLength(Cbool, nrow, ncol, ci, cj, -1, 0)
                     + RunLength(Cbool, nrow, ncol, ci, cj, 1, 0)
                     + RunLength(Cbool, nrow, ncol, ci, cj, 0, -1)
                     + RunLength(Cbool, nrow, ncol, ci, cj, 0, 1)

\* C8 witness: runs of 2 up, 0 down, 1 left and 3 right, counted as 6.
C8_Witness ==
    /\ pc = "counted"
    /\ RunLength(Cbool, nrow, ncol, ci, cj, -1, 0) = 2
    /\ RunLength(Cbool, nrow, ncol, ci, cj, 1, 0) = 0
    /\ RunLength(Cbool, nrow, ncol, ci, cj, 0, -1) = 1
    /\ RunLength(Cbool, nrow, ncol, ci, cj, 0, 1) = 3
    /\ encSum = 6
    /\ visible = 6

\* C9: evaluate_model never decodes a cell of a satisfying assignment to '?'.
C9_NoUnexpectedArrow ==
    pc \in {"verify", "verified"} => \A c \in Cells(nrow, ncol) : Estr[c] # "?"

Adjacent(a, b) ==
    \/ a[1] = b[1] /\ (a[2] = b[2] + 1 \/ b[2] = a[2] + 1)
    \/ a[2] = b[2] /\ (a[1] = b[1] + 1 \/ b[1] = a[1] + 1)

ShadedCells(Cv) == {c \in DOMAIN Cv : ~Cv[c]}

\* S is one 4-connected component (or empty): no part of it is cut off
\* from the rest.
Connected(S) ==
    \A T \in SUBSET S :
        (T # {} /\ T # S) => \E a \in T : \E b \in S \ T : Adjacent(a, b)

\* The 4-connected component of r in S: what every adjacency-closed part
\* of S holding r contains.
ComponentOf(r, S) ==
    {c \in S :
        \A T \in SUBSET S :
            (r \in T /\ \A a \in T : \A b \in S : Adjacent(a, b) => b \in T) => c \in T}

C10_State ==
    /\ (pc = "vdone" /\ PreChecks(grid, Cbool, nrow, ncol) \in {"ok", "return"}) =>
          /\ vresult \in {"ok", "Unreached"}
          /\ vresult = "Unreached" <=> (~allow_weak /\ ~Connected(ShadedCells(Cbool)))
          /\ TotalCount(Cbool) = 0 => vresult = "ok"
          /\ allow_weak => vresult = "ok"
    /\ (pc = "traverse" /\ work = {}) =>
          reached = ComponentOf(find_first_shaded(Cbool), ShadedCells(Cbool))

\* C10: on a grid and shading that pass the 2x2 and clue checks, verify
\* ends; in strict mode it raises 'reached ... instead of ...' exactly when
\* the shaded cells are not one 4-connected component, the traversal having
\* reached the component of the first shaded cell; with no shaded cell, or
\* with allow_weak, it returns.
C10_VerifierConnectivity == [](C10_State) /\ <>(pc = "vdone")

\* C10 witness: strict verify raised on a disconnected shading.
C10_Witness ==
    /\ pc = "vdone"
    /\ ~allow_weak
    /\ vresult = "Unreached"
    /\ ~Connected(ShadedCells(Cbool))

============================================================================
